---- MODULE Spec2Model ----
(***************************************************************************)
(* EasyPix editor: the raster edit pipeline with its bounded undo stack    *)
(* (EditorScreen.tsx), the crop tool (CropTool, second half of             *)
(* SplashScreen.tsx) and the pointer gesture / animation engine            *)
(* (EditorScreen.tsx lines 77-262).                                        *)
(*                                                                         *)
(* Rasters are symbolic terms: <<"orig", <<w, h>>>> is the image the       *)
(* editor was opened with and <<format, parameters, source raster>> is the *)
(* data URL a canvas operation produced from a source raster.              *)
(*                                                                         *)
(* A React handler sees the state of the render it was created in: an      *)
(* asynchronous handler keeps the currentImageUri, sliders and overlay it  *)
(* captured when it was triggered (op.src, op.arg), while pushUndo's       *)
(* functional update (s) => [...] sees the undo stack of the moment.       *)
(***************************************************************************)
EXTENDS Integers, Sequences, FiniteSets, TLC

\* ------------------------------------------------------------------ bounds
\* Operations triggered in one run of Spec.
MaxOps == 2
\* Operations triggered in one run of SpecUndo (more than the capacity 10).
MaxDeep == 11
\* Most asynchronous operations (image loads, promises) pending at once.
MaxInFlight == 2
\* Operations of one run of SpecUndo triggered while another is pending.
MaxOverlap == 1
\* Pointer events and animation frames of one run of SpecView.
MaxEvents == 5
MaxTicks == 2
MaxRestEvents == 4
MaxEditOps == 1
\* Image sides in px and edits in a row of SpecRatio.
MaxSide == 16
MaxRatioOps == 2
\* Image sides in px and edits in a row of SpecFlip.
MaxPix == 3
MaxFlipOps == 4
\* Applies in a row of SpecAdjust.
MaxAdjustOps == 2
\* Pointer events on the overlay box and applies of one run of SpecOverlay.
MaxDragEvents == 4
MaxOverlayOps == 2
MaxCropEvents == 4
MaxCropOps == 1
MaxHandleEvents == 4
MaxShrinkOps == 8
MaxSlowEvents == 5
MaxSlowTicks == 2
MaxThreeEvents == 5
MaxThreeTicks == 1

\* ------------------------------------------------------- program constants
\* pushUndo keeps s.slice(0, 9) behind the new head.
UndoKeep == 9
\* applyCanvasOperations(quality = 0.92), in percent.
DefaultQuality == 92
\* useState(100) of the three sliders and the improve-quality preset.
SliderDefault == 100
ImproveBrightness == 105
ImproveContrast == 105
ImproveSaturation == 102
ImproveQuality == 95
\* CropTool: container style height 220, initial crop {40, 40, 200, 200}.
CropContainerH == 220
CropInitPos == 40
CropInitSize == 200
CropMinSize == 40
CropHandle == 8
\* handleImageImport: Math.min(240, w * 0.5).
OverlayMaxWidth == 240
\* Display lengths are kept in 1/100 px, scales in 1/10000.
PX == 100
ScaleUnit == 10000
\* What stands for NaN among the integers: no length or scale reaches it.
NaN == -999999999
\* clamp(scale, 0.3, 4).
MinScale == (3 * ScaleUnit) \div 10
MaxScale == 4 * ScaleUnit
\* loop: ease 0.15 and friction 0.92, in percent.
EasePct == 15
FrictionPct == 92
\* loop: the velocity is applied above 0.02 px; the loop stops within 0.3 px,
\* 0.001 of scale and 0.05 px of velocity.
VelocityGate == (2 * PX) \div 100
StopDistance == (3 * PX) \div 10
StopScale == ScaleUnit \div 1000
StopVelocity == (5 * PX) \div 100
\* 1000 / 60 ms is the frame a velocity is normalised to.
FrameHz == 60

\* ------------------------------------------------------------ input sets
OrigDims == {<<400, 300>>}
\* clientWidth and clientHeight, in px, of <main> and of the crop container.
MainContainer == <<300, 400>>
CropContainer == <<300, CropContainerH>>
SliderValues == {100, 150}
QualityValues == {92, 50}
OpacityValues == {0, 100}
Ratios == {<<1, 1>>, <<4, 3>>, <<16, 9>>, <<3, 4>>, <<9, 16>>}
Files == {1}
\* Pointer ids, client positions in px and elapsed times in ms between two
\* samples of a pointer.
PointerIds == {1, 2}
Positions == {<<150, 200>>, <<190, 200>>, <<190, 230>>}
Elapsed == {16}
\* A slow drag: pointer positions 1 px apart, reported a second apart.
SlowPositions == {<<150, 200>>, <<151, 200>>, <<190, 230>>}
SlowElapsed == {16, 1000}
\* Three fingers.
ThreePointerIds == {1, 2, 3}
\* Natural sizes of the images of SpecOverlay.  Sizes of <main>: a portrait phone, the same phone in landscape, a small
\* window; client positions of the pointer over the overlay box.
OverlayDims == {<<8, 6>>}
CropPositions ==
  {<<150, 100>>, <<216, 176>>, <<84, 44>>, <<40, 40>>, <<0, 0>>,
   <<299, 219>>, <<240, 240>>}
Containers == {MainContainer, <<640, 230>>, <<200, 120>>}
DragPositions == {<<100, 60>>, <<150, 200>>, <<320, 100>>, <<10, 10>>,
                  <<600, 390>>}

ModalTools == {"ratio", "flip", "compress", "enhance"}
NavTools == {"crop", "ratio", "flip", "compress", "enhance"}

VARIABLES
  activeTool, isProcessing, undoStack, currentImageUri,
  brightness, contrast, saturation, compressionQuality, overlay,
  pending, readers, lastEvent, opsStarted, overlaps, run,
  crop, dragRef, cropLoads,
  transformRef, targetRef, lastPinchDistance, velocityRef, pointers,
  lastPointerRef, isAnimatingRef, rafPending, pointerEvents, ticks,
  containerRef, overlayDrags

editorVars == <<activeTool, isProcessing, undoStack, currentImageUri,
                brightness, contrast, saturation, compressionQuality, overlay,
                pending, readers, lastEvent, opsStarted, overlaps, run>>
cropVars == <<crop, dragRef, cropLoads>>
gestureVars == <<transformRef, targetRef, lastPinchDistance, velocityRef,
                 pointers, lastPointerRef, isAnimatingRef, rafPending,
                 pointerEvents, ticks, containerRef, overlayDrags>>
vars == <<editorVars, cropVars, gestureVars>>

\* ------------------------------------------------------------ arithmetic
Min(a, b) == IF a < b THEN a ELSE b
Max(a, b) == IF a > b THEN a ELSE b
Abs(a) == IF a < 0 THEN -a ELSE a
\* Math.round(n / d) for d > 0: halves go up.
RoundDiv(n, d) == (2 * n + d) \div (2 * d)

\* ---------------------------------------------------------------- rasters
IsOrig(r) == r[1] = "orig"

RECURSIVE Depth(_)
Depth(r) == IF IsOrig(r) THEN 0 ELSE 1 + Depth(r[3])

\* naturalWidth / naturalHeight of the image a data URL decodes to.
RECURSIVE Dim(_)
Dim(r) ==
  IF IsOrig(r) THEN r[2]
  ELSE IF r[2][1] = "crop" THEN <<r[2][4], r[2][5]>>
  ELSE IF r[2][1] = "rotate90" THEN <<Dim(r[3])[2], Dim(r[3])[1]>>
  ELSE Dim(r[3])

\* applyCanvasOperations: draw the source through the slider filter and
\* encode as JPEG at the given quality.
ApplyCanvasOperations(src, b, c, s, q) ==
  <<"jpeg", <<"filter", b, c, s, q>>, src>>

\* Ratio button: the centred source rectangle <<sx, sy, srcW, srcH>>.
\* The rectangle computed with Math.floor in place of Math.round.
RatioRectFloored(W, H, rw, rh) ==
  IF W * rh > rw * H
  THEN LET srcW == (H * rw) \div rh
       IN <<(W - srcW) \div 2, 0, srcW, H>>
  ELSE LET srcH == (W * rh) \div rw
       IN <<0, (H - srcH) \div 2, W, srcH>>

RatioRect(W, H, rw, rh) ==
  IF W * rh > rw * H
  THEN LET srcW == RoundDiv(H * rw, rh)
       IN <<RoundDiv(W - srcW, 2), 0, srcW, H>>
  ELSE LET srcH == RoundDiv(W * rh, rw)
       IN <<0, RoundDiv(H - srcH, 2), W, srcH>>

RatioCrop(src, rw, rh) ==
  LET d == Dim(src)
      r == RatioRect(d[1], d[2], rw, rh)
  IN <<"png", <<"crop", r[1], r[2], r[3], r[4]>>, src>>

FlipH(src) == <<"png", <<"flipH">>, src>>
Rotate90(src) == <<"png", <<"rotate90">>, src>>
\* ----------------------------------------------------------------- pixels
\* The 2D context's current transformation matrix: a point (x, y) of user
\* space is drawn at (a x + c y + e, b x + d y + f) of the canvas.
CTMIdentity == [a |-> 1, b |-> 0, c |-> 0, d |-> 1, e |-> 0, f |-> 0]

\* ctx.translate, ctx.scale, ctx.rotate multiply the matrix on the right.
CtxTranslate(m, tx, ty) ==
  [m EXCEPT !.e = m.a * tx + m.c * ty + m.e,
            !.f = m.b * tx + m.d * ty + m.f]

CtxScale(m, sx, sy) ==
  [m EXCEPT !.a = m.a * sx, !.b = m.b * sx, !.c = m.c * sy, !.d = m.d * sy]

\* ctx.rotate((90 * Math.PI) / 180): cos = 0, sin = 1, clockwise on a
\* canvas whose y axis points down.
CtxRotate90(m) ==
  [m EXCEPT !.a = m.c, !.b = m.d, !.c = -m.a, !.d = -m.b]

Grid(w, h) == (0..(w - 1)) \X (0..(h - 1))

\* The canvas pixel that the centre (x + 1/2, y + 1/2) of the image pixel p
\* is drawn on, computed on doubled coordinates.
DrawnAt(m, p) ==
  <<(m.a * (2 * p[1] + 1) + m.c * (2 * p[2] + 1) + 2 * m.e) \div 2,
    (m.b * (2 * p[1] + 1) + m.d * (2 * p[2] + 1) + 2 * m.f) \div 2>>

\* A pixel of a fresh canvas that nothing has been drawn on.
Transparent == <<>>

\* ctx.drawImage(img, 0, 0) on a fresh cw x ch canvas.
DrawImage(m, img, d, cw, ch) ==
  [q \in Grid(cw, ch) |->
     IF \E p \in Grid(d[1], d[2]) : DrawnAt(m, p) = q
     THEN img[CHOOSE p \in Grid(d[1], d[2]) : DrawnAt(m, p) = q]
     ELSE Transparent]

\* Flip H with the translation left out: the mirror image is drawn left of
\* the canvas.
FlipMatrixUntranslated(cw, ch) == CtxScale(CTMIdentity, -1, 1)

\* ctx.translate(canvas.width, 0); ctx.scale(-1, 1).
FlipMatrix(cw, ch) == CtxScale(CtxTranslate(CTMIdentity, cw, 0), -1, 1)

\* Rotate 90 turned the other way: ctx.translate(0, canvas.height);
\* ctx.rotate(-90 degrees).
RotateMatrixCounter(cw, ch) ==
  LET m == CtxTranslate(CTMIdentity, 0, ch)
  IN [m EXCEPT !.a = -m.c, !.b = -m.d, !.c = m.a, !.d = m.b]

\* ctx.translate(canvas.width, 0); ctx.rotate((90 * Math.PI) / 180).
RotateMatrix(cw, ch) == CtxRotate90(CtxTranslate(CTMIdentity, cw, 0))

\* The pixels an imported, flipped or rotated image decodes to, each named
\* by the pixel of the imported image it shows; PNG encoding and decoding
\* keep them.
RECURSIVE Pixels(_)
Pixels(r) ==
  LET d == Dim(r)
  IN IF IsOrig(r) THEN [p \in Grid(d[1], d[2]) |-> p]
     ELSE CASE r[2][1] = "flipH" ->
                 DrawImage(FlipMatrix(d[1], d[2]), Pixels(r[3]), Dim(r[3]),
                           d[1], d[2])
            [] r[2][1] = "rotate90" ->
                 DrawImage(RotateMatrix(d[1], d[2]), Pixels(r[3]), Dim(r[3]),
                           d[1], d[2])

\* One 8-bit channel of a pixel of the imported image, and of the (plain)
\* overlay file.
ColourAt(p) == (37 * p[1] + 101 * p[2] + 11) % 256
OverlayColour == 200

\* Source-over drawn with every alpha taken as 1: globalAlpha is ignored.
BlendOpaque(cs, cb, alpha) == cs

\* Source-over compositing of an opaque source pixel at ctx.globalAlpha =
\* alpha / 100: co = cs * alpha + cb * (1 - alpha), rounded to 8 bits.
Blend(cs, cb, alpha) == RoundDiv(cs * alpha + cb * (100 - alpha), 100)

\* The centre of canvas pixel q lies in the destination rectangle of
\* ctx.drawImage(ov, x * scaleX, y * scaleY, width * scaleX, height * scaleY).
InOverlayRect(q, o) ==
  LET cw == o[8][1] * PX
      ch == o[8][2] * PX
  IN /\ 2 * o[3] <= (2 * q[1] + 1) * cw
     /\ (2 * q[1] + 1) * cw < 2 * (o[3] + o[5])
     /\ 2 * o[4] <= (2 * q[2] + 1) * ch
     /\ (2 * q[2] + 1) * ch < 2 * (o[4] + o[6])

\* The channel of every pixel an image decodes to.
RECURSIVE Colours(_)
Colours(r) ==
  LET d == Dim(r)
  IN IF ~IsOrig(r) /\ r[2][1] = "overlay"
     THEN LET base == Colours(r[3])
          IN [q \in Grid(d[1], d[2]) |->
                IF InOverlayRect(q, r[2])
                THEN Blend(OverlayColour, base[q], r[2][7])
                ELSE base[q]]
     ELSE [q \in Grid(d[1], d[2]) |-> ColourAt(Pixels(r)[q])]

ImproveQualityOf(src) ==
  <<"jpeg", <<"filter", ImproveBrightness, ImproveContrast, ImproveSaturation,
              ImproveQuality>>, src>>
\* removeBackground is an external collaborator: its result is opaque.
BgRemoved(src) == <<"png", <<"bgremoved">>, src>>

\* handleApplyOverlay: the overlay is drawn at (x*scaleX, y*scaleY) with size
\* (width*scaleX, height*scaleY), scaleX = naturalWidth / clientWidth; the
\* four numbers are kept as numerators over PX * clientWidth and
\* PX * clientHeight of the container, which closes the list.
ComposeOverlay(src, ov) ==
  LET d == Dim(src)
  IN <<"png", <<"overlay", ov.src, ov.x * d[1], ov.y * d[2],
                ov.width * d[1], ov.height * d[2], ov.opacity,
                containerRef>>, src>>

\* CropTool.applyCrop: the crop rectangle in natural pixels; the <img> is
\* w-full h-full, so its bounding rect is the container box.
CropRectNatural(src, c) ==
  LET d == Dim(src)
  IN <<RoundDiv(c.x * d[1], CropContainer[1] * PX),
       RoundDiv(c.y * d[2], CropContainer[2] * PX),
       RoundDiv(c.w * d[1], CropContainer[1] * PX),
       RoundDiv(c.h * d[2], CropContainer[2] * PX)>>

CropOf(src, r) == <<"png", <<"crop", r[1], r[2], r[3], r[4]>>, src>>

\* ------------------------------------------------------------- undo stack
\* The stack holds the new head and at most UndoKeep older rasters.
UndoCapacity == UndoKeep + 1

\* [...s.slice(0, 9), uri]: the new raster goes to the wrong end.
PushUndoAtEnd(uri, s) == SubSeq(s, 1, Min(Len(s), UndoKeep)) \o <<uri>>
\* [uri, ...s.slice(0, 10)]: one raster too many is kept.
PushUndoKeepTen(uri, s) == <<uri>> \o SubSeq(s, 1, Min(Len(s), UndoKeep + 1))

PushUndo(uri, s) == <<uri>> \o SubSeq(s, 1, Min(Len(s), UndoKeep))

\* ------------------------------------------------------------ transform
Identity == [tx |-> 0, ty |-> 0, scale |-> ScaleUnit]
ZeroVelocity == [vx |-> 0, vy |-> 0]

\* ------------------------------------------------------------- UI gates
\* The tool modal (<Modal>, fixed inset-0 z-50, rendered last) covers the
\* header and the footer; the processing overlay (fixed inset-0 z-50,
\* rendered first) covers everything painted before the modal.  No handler
\* reads isProcessing: these overlays are the only gate.
ModalOpen == activeTool \in ModalTools
HeaderClickable == ~isProcessing /\ ~ModalOpen
NavClickable == HeaderClickable /\ activeTool \notin {"crop", "import"}
FooterClickable(tool) == activeTool = tool /\ ~isProcessing

NoEvent ==
  [h |-> "none", kind |-> "none", out |-> "none", alert |-> "none",
   src |-> <<>>, stk |-> <<>>]

CancelEvent(tool) == [NoEvent EXCEPT !.h = "cancel", !.kind = tool]

Live(ops) == {i \in 1..Len(ops) : ~ops[i].hung}
RemoveAt(s, i) == SubSeq(s, 1, i - 1) \o SubSeq(s, i + 1, Len(s))

\* ------------------------------------------------------ history of a run
\* run observes whether the run so far is a sequence of successful edits,
\* each completed before the next is triggered, followed by undos: rasters
\* lists the rasters that were current, undos counts the undos.  Any other
\* run (a failure, an overlap, an edit after an undo, an undo with nothing to
\* restore) is "mixed".
MixedRun == [phase |-> "mixed", rasters |-> <<>>, undos |-> 0]

RunAfterTrigger ==
  IF run.phase = "edits" /\ pending = <<>> THEN run ELSE MixedRun

RunAfterComplete(replaces, newUri) ==
  IF run.phase = "edits" /\ replaces
  THEN [run EXCEPT !.rasters = Append(@, newUri)]
  ELSE MixedRun

RunAfterUndo ==
  IF run.phase \in {"edits", "undos"} /\ pending = <<>> /\ undoStack # <<>>
  THEN [run EXCEPT !.phase = "undos", !.undos = @ + 1]
  ELSE MixedRun

\* An operation may start while the bounds leave room for it.
StartAllowed(d) ==
  /\ opsStarted < d[1]
  /\ Len(pending) < MaxInFlight
  /\ pending = <<>> \/ overlaps < d[2]

\* The record of a triggered operation: what its closure captured.
NewOp(kind, arg) ==
  [kind |-> kind, src |-> currentImageUri, arg |-> arg, stk |-> undoStack,
   hung |-> FALSE]

\* The effect with the display reset alone: target and velocity survive the
\* change of raster.
ImageEffectDisplayOnly(newUri) ==
  /\ IF newUri # currentImageUri
     THEN transformRef' = Identity
     ELSE UNCHANGED transformRef
  /\ UNCHANGED <<targetRef, velocityRef, lastPinchDistance, pointers,
                 lastPointerRef, isAnimatingRef, rafPending, pointerEvents,
                 ticks, containerRef, overlayDrags>>

\* useEffect(..., [currentImageUri]): the transform is reset when the
\* current raster changes; pointers and the running loop are left alone.
ImageEffect(newUri) ==
  /\ IF newUri # currentImageUri
     THEN /\ transformRef' = Identity
          /\ targetRef' = Identity
          /\ velocityRef' = ZeroVelocity
     ELSE UNCHANGED <<transformRef, targetRef, velocityRef>>
  /\ UNCHANGED <<lastPinchDistance, pointers, lastPointerRef, isAnimatingRef,
                 rafPending, pointerEvents, ticks, containerRef, overlayDrags>>

CropInit ==
  [x |-> CropInitPos * PX, y |-> CropInitPos * PX,
   w |-> CropInitSize * PX, h |-> CropInitSize * PX]
NoDrag == [mode |-> "none", startX |-> 0, startY |-> 0, startCrop |-> CropInit]

\* CropTool is mounted exactly while activeTool = "crop": mounting creates
\* its state and starts the centring image load, a change of the image prop
\* starts another load, unmounting drops state and loads.
CropLifecycle(newTool, newUri) ==
  IF newTool = "crop" /\ activeTool # "crop"
  THEN crop' = CropInit /\ dragRef' = NoDrag /\ cropLoads' = 1
  ELSE IF newTool # "crop"
  THEN crop' = CropInit /\ dragRef' = NoDrag /\ cropLoads' = 0
  ELSE IF newUri # currentImageUri
  THEN cropLoads < MaxInFlight /\ cropLoads' = cropLoads + 1
       /\ UNCHANGED <<crop, dragRef>>
  ELSE UNCHANGED cropVars

\* ------------------------------------------------------ editor: UI state
\* Footer tool buttons: setActiveTool(t).
ToolClick(t) ==
  /\ NavClickable
  /\ activeTool' = t
  /\ CropLifecycle(t, currentImageUri)
  /\ lastEvent' = NoEvent
  /\ UNCHANGED <<isProcessing, undoStack, currentImageUri, brightness,
                 contrast, saturation, compressionQuality, overlay, pending,
                 readers, opsStarted, overlaps, run>>
  /\ UNCHANGED gestureVars

\* Modal onClose (backdrop or Close button): setActiveTool(null).
ModalClose ==
  /\ ModalOpen
  /\ activeTool' = "none"
  /\ lastEvent' = NoEvent
  /\ UNCHANGED <<isProcessing, undoStack, currentImageUri, brightness,
                 contrast, saturation, compressionQuality, overlay, pending,
                 readers, opsStarted, overlaps, run>>
  /\ UNCHANGED cropVars
  /\ UNCHANGED gestureVars

\* Enhance sliders and the compression slider, inside their modals.
SetBrightness(v) ==
  /\ activeTool = "enhance" /\ v # brightness
  /\ brightness' = v
  /\ lastEvent' = NoEvent
  /\ UNCHANGED <<activeTool, isProcessing, undoStack, currentImageUri,
                 contrast, saturation, compressionQuality, overlay, pending,
                 readers, opsStarted, overlaps, run>>
  /\ UNCHANGED cropVars
  /\ UNCHANGED gestureVars

SetContrast(v) ==
  /\ activeTool = "enhance" /\ v # contrast
  /\ contrast' = v
  /\ lastEvent' = NoEvent
  /\ UNCHANGED <<activeTool, isProcessing, undoStack, currentImageUri,
                 brightness, saturation, compressionQuality, overlay, pending,
                 readers, opsStarted, overlaps, run>>
  /\ UNCHANGED cropVars
  /\ UNCHANGED gestureVars

SetSaturation(v) ==
  /\ activeTool = "enhance" /\ v # saturation
  /\ saturation' = v
  /\ lastEvent' = NoEvent
  /\ UNCHANGED <<activeTool, isProcessing, undoStack, currentImageUri,
                 brightness, contrast, compressionQuality, overlay, pending,
                 readers, opsStarted, overlaps, run>>
  /\ UNCHANGED cropVars
  /\ UNCHANGED gestureVars

SetCompressionQuality(v) ==
  /\ activeTool = "compress" /\ v # compressionQuality
  /\ compressionQuality' = v
  /\ lastEvent' = NoEvent
  /\ UNCHANGED <<activeTool, isProcessing, undoStack, currentImageUri,
                 brightness, contrast, saturation, overlay, pending, readers,
                 opsStarted, overlaps, run>>
  /\ UNCHANGED cropVars
  /\ UNCHANGED gestureVars

\* ------------------------------------------------- editor: operation start
\* What every trigger does besides its own flag: record the operation.
Trigger(kind, arg, busy) ==
  /\ pending' = Append(pending, NewOp(kind, arg))
  /\ opsStarted' = opsStarted + 1
  /\ overlaps' = IF pending = <<>> THEN overlaps ELSE overlaps + 1
  /\ run' = RunAfterTrigger
  /\ isProcessing' = (busy \/ isProcessing)
  /\ lastEvent' = NoEvent
  /\ UNCHANGED <<activeTool, undoStack, currentImageUri, brightness, contrast,
                 saturation, compressionQuality, overlay, readers>>
  /\ UNCHANGED cropVars
  /\ UNCHANGED gestureVars

SliderArg(q) == <<brightness, contrast, saturation, q>>

\* handleSave: setIsProcessing(true); await applyCanvasOperations().
HandleSave(d) ==
  /\ HeaderClickable /\ StartAllowed(d)
  /\ Trigger("save", SliderArg(DefaultQuality), TRUE)

\* handleExport: setIsProcessing(true); the result is shared, not kept.
HandleExport(d) ==
  /\ HeaderClickable /\ StartAllowed(d)
  /\ Trigger("export", SliderArg(DefaultQuality), TRUE)

\* handleBackgroundRemove: setIsProcessing(true); await removeBackground().
HandleBackgroundRemove(d) ==
  /\ NavClickable /\ StartAllowed(d)
  /\ Trigger("removeBg", <<>>, TRUE)

\* Quality tool handler: setIsProcessing(true); await image load.
HandleImproveQuality(d) ==
  /\ NavClickable /\ StartAllowed(d)
  /\ Trigger("quality", <<>>, TRUE)

\* Ratio button onClick: new Image(); nothing else happens until onload.
RatioClick(d, r) ==
  /\ activeTool = "ratio" /\ StartAllowed(d)
  /\ Trigger("ratio", r, FALSE)

\* Flip H onClick.
FlipHClick(d) ==
  /\ activeTool = "flip" /\ StartAllowed(d)
  /\ Trigger("flipH", <<>>, FALSE)

\* Rotate 90 onClick.
RotateClick(d) ==
  /\ activeTool = "flip" /\ StartAllowed(d)
  /\ Trigger("rotate", <<>>, FALSE)

\* Compress Apply onClick: applyCanvasOperations(compressionQuality / 100).
CompressApply(d) ==
  /\ activeTool = "compress" /\ StartAllowed(d)
  /\ Trigger("compress", SliderArg(compressionQuality), TRUE)

\* Apply Enhancements onClick: applyCanvasOperations().
EnhanceApply(d) ==
  /\ activeTool = "enhance" /\ StartAllowed(d)
  /\ Trigger("enhance", SliderArg(DefaultQuality), TRUE)

\* CropTool.applyCrop: the source rectangle is computed at the click, the
\* image is then loaded and drawn in onload.
ApplyCrop(d) ==
  /\ FooterClickable("crop") /\ StartAllowed(d)
  /\ Trigger("crop", CropRectNatural(currentImageUri, crop), FALSE)

\* handleApplyOverlay: if (!overlay) return; setIsProcessing(true); ...
HandleApplyOverlay(d) ==
  /\ FooterClickable("import") /\ StartAllowed(d)
  /\ overlay # <<>>
  /\ Trigger("overlay", overlay[1], TRUE)

\* -------------------------------------------- editor: operation completion
CanvasKinds == {"save", "compress", "enhance"}
\* Handlers that wrap their work in try / catch / finally around isProcessing.
BusyKinds == {"save", "export", "removeBg", "quality", "overlay", "compress",
              "enhance"}
\* Handlers that call setActiveTool(null) after replacing the raster.
ClosingKinds == {"ratio", "flipH", "rotate", "compress", "enhance", "crop",
                 "overlay"}
\* Handlers that await new Promise((r) => (img.onload = r)): a decode
\* failure never settles the promise.
AwaitOnloadKinds == {"quality", "overlay"}

Outcomes(kind) ==
  IF kind = "removeBg" THEN {"ok", "rejected"}
  ELSE IF kind = "export" THEN {"ok", "decodeFail", "noCtx", "shareFail"}
  ELSE {"ok", "decodeFail", "noCtx"}

AlertText(kind) ==
  CASE kind = "save" -> "Error saving image"
    [] kind = "export" -> "Export failed"
    [] kind = "removeBg" -> "Background removal failed."
    [] kind = "overlay" -> "Apply overlay failed"
    [] kind = "quality" -> "Improve failed"
    [] kind = "compress" -> "Compress failed"
    [] kind = "enhance" -> "Apply failed"
    [] OTHER -> "none"

\* The data URL a successful operation hands to setCurrentImageUri.
ResultOf(op) ==
  CASE op.kind \in CanvasKinds ->
         ApplyCanvasOperations(op.src, op.arg[1], op.arg[2], op.arg[3],
                               op.arg[4])
    [] op.kind = "quality" -> ImproveQualityOf(op.src)
    [] op.kind = "removeBg" -> BgRemoved(op.src)
    [] op.kind = "ratio" -> RatioCrop(op.src, op.arg[1], op.arg[2])
    [] op.kind = "flipH" -> FlipH(op.src)
    [] op.kind = "rotate" -> Rotate90(op.src)
    [] op.kind = "crop" -> CropOf(op.src, op.arg)
    [] op.kind = "overlay" -> ComposeOverlay(op.src, op.arg)

\* The pending operation i ends with outcome out: the image loads (or fails
\* to), the canvas work runs and the continuation of the handler executes.
Complete(i, out) ==
  LET op == pending[i]
      hangs == op.kind \in AwaitOnloadKinds /\ out = "decodeFail"
      caught == out # "ok" /\ op.kind \in BusyKinds /\ ~hangs
      replaces == out = "ok" /\ op.kind # "export"
      newUri == IF replaces THEN ResultOf(op) ELSE currentImageUri
      newTool == IF replaces /\ op.kind \in ClosingKinds
                 THEN "none" ELSE activeTool
  IN /\ i \in Live(pending)
     /\ out \in Outcomes(op.kind)
     /\ pending' = IF hangs THEN [pending EXCEPT ![i].hung = TRUE]
                   ELSE RemoveAt(pending, i)
     /\ undoStack' = IF replaces THEN PushUndo(op.src, undoStack)
                     ELSE undoStack
     /\ currentImageUri' = newUri
     /\ activeTool' = newTool
     /\ overlay' = IF replaces /\ op.kind = "overlay" THEN <<>> ELSE overlay
     /\ isProcessing' = IF op.kind \in BusyKinds /\ ~hangs THEN FALSE
                        ELSE isProcessing
     /\ lastEvent' = [h |-> "complete", kind |-> op.kind, out |-> out,
                      alert |-> IF caught THEN AlertText(op.kind) ELSE "none",
                      src |-> op.src, stk |-> op.stk]
     /\ run' = RunAfterComplete(replaces, newUri)
     /\ UNCHANGED <<brightness, contrast, saturation, compressionQuality,
                    readers, opsStarted, overlaps>>
     /\ ImageEffect(newUri)
     /\ CropLifecycle(newTool, newUri)

\* handleUndo without its test of latest: setCurrentImageUri(undefined).
HandleUndoUnguarded ==
  LET newUri == IF undoStack # <<>> THEN Head(undoStack) ELSE <<"undefined">>
  IN /\ HeaderClickable
     /\ currentImageUri' = newUri
     /\ undoStack' = IF undoStack # <<>> THEN Tail(undoStack) ELSE undoStack
     /\ lastEvent' = [h |-> "undo", kind |-> "undo",
                      out |-> IF undoStack # <<>> THEN "ok" ELSE "empty",
                      alert |-> "none", src |-> <<>>, stk |-> <<>>]
     /\ run' = RunAfterUndo
     /\ UNCHANGED <<activeTool, isProcessing, brightness, contrast, saturation,
                    compressionQuality, overlay, pending, readers,
                    opsStarted, overlaps>>
     /\ ImageEffect(newUri)
     /\ CropLifecycle(activeTool, newUri)

\* handleUndo: const [latest, ...rest] = undoStack; if (latest) { ... }.
\* (The button is disabled on an empty stack; the handler has its own test.)
HandleUndo ==
  LET newUri == IF undoStack # <<>> THEN Head(undoStack) ELSE currentImageUri
  IN /\ HeaderClickable
     /\ currentImageUri' = newUri
     /\ undoStack' = IF undoStack # <<>> THEN Tail(undoStack) ELSE undoStack
     /\ lastEvent' = [h |-> "undo", kind |-> "undo",
                      out |-> IF undoStack # <<>> THEN "ok" ELSE "empty",
                      alert |-> "none", src |-> <<>>, stk |-> <<>>]
     /\ run' = RunAfterUndo
     /\ UNCHANGED <<activeTool, isProcessing, brightness, contrast, saturation,
                    compressionQuality, overlay, pending, readers,
                    opsStarted, overlaps>>
     /\ ImageEffect(newUri)
     /\ CropLifecycle(activeTool, newUri)

\* ---------------------------------------------------------- editor: overlay
\* handleImageImport: start reading the file, setActiveTool("import").
ImportFile(f) ==
  /\ NavClickable
  /\ Len(readers) < MaxInFlight
  /\ readers' = Append(readers, f)
  /\ activeTool' = "import"
  /\ lastEvent' = NoEvent
  /\ UNCHANGED <<isProcessing, undoStack, currentImageUri, brightness,
                 contrast, saturation, compressionQuality, overlay, pending,
                 opsStarted, overlaps, run>>
  /\ CropLifecycle("import", currentImageUri)
  /\ UNCHANGED gestureVars

\* rdr.onload: the overlay is placed centred, at most half the container wide.
PlaceOverlay(f) ==
  LET w == containerRef[1] * PX
      h == containerRef[2] * PX
      width == Min(OverlayMaxWidth * PX, w \div 2)
  IN [src |-> <<"file", f>>, x |-> (w - width) \div 2,
      y |-> (h - width) \div 2, width |-> width, height |-> width,
      opacity |-> 100]

ReaderLoad(i) ==
  /\ i \in 1..Len(readers)
  /\ overlay' = <<PlaceOverlay(readers[i])>>
  /\ readers' = RemoveAt(readers, i)
  /\ lastEvent' = NoEvent
  /\ UNCHANGED <<activeTool, isProcessing, undoStack, currentImageUri,
                 brightness, contrast, saturation, compressionQuality, pending,
                 opsStarted, overlaps, run>>
  /\ UNCHANGED cropVars
  /\ UNCHANGED gestureVars

\* The import footer's Cancel without setOverlay(null).
CancelImportKeepsOverlay ==
  /\ FooterClickable("import")
  /\ activeTool' = "none"
  /\ lastEvent' = CancelEvent("import")
  /\ UNCHANGED <<isProcessing, undoStack, currentImageUri, brightness,
                 contrast, saturation, compressionQuality, overlay, pending,
                 readers, opsStarted, overlaps, run>>
  /\ UNCHANGED cropVars
  /\ UNCHANGED gestureVars

\* Import footer Cancel: setOverlay(null); setActiveTool(null).
CancelImport ==
  /\ FooterClickable("import")
  /\ overlay' = <<>>
  /\ activeTool' = "none"
  /\ lastEvent' = CancelEvent("import")
  /\ UNCHANGED <<isProcessing, undoStack, currentImageUri, brightness,
                 contrast, saturation, compressionQuality, pending, readers,
                 opsStarted, overlaps, run>>
  /\ UNCHANGED cropVars
  /\ UNCHANGED gestureVars

\* Opacity slider: setOverlay((o) => o ? {...o, opacity} : o), in percent.
SetOpacity(v) ==
  /\ FooterClickable("import")
  /\ overlay # <<>>
  /\ v # overlay[1].opacity
  /\ overlay' = <<[overlay[1] EXCEPT !.opacity = v]>>
  /\ lastEvent' = NoEvent
  /\ UNCHANGED <<activeTool, isProcessing, undoStack, currentImageUri,
                 brightness, contrast, saturation, compressionQuality, pending,
                 readers, opsStarted, overlaps, run>>
  /\ UNCHANGED cropVars
  /\ UNCHANGED gestureVars

\* ------------------------------------------------------------- crop tool
\* CropTool onCancel: setActiveTool(null).
CropCancel ==
  /\ FooterClickable("crop")
  /\ activeTool' = "none"
  /\ lastEvent' = CancelEvent("crop")
  /\ UNCHANGED <<isProcessing, undoStack, currentImageUri, brightness,
                 contrast, saturation, compressionQuality, overlay, pending,
                 readers, opsStarted, overlaps, run>>
  /\ CropLifecycle("none", currentImageUri)
  /\ UNCHANGED gestureVars

\* useEffect img.onload: centre a square of 0.6 * min(w, h).
CropCentered ==
  LET w == CropContainer[1] * PX
      h == CropContainer[2] * PX
      size == (Min(w, h) * 6) \div 10
  IN [x |-> (w - size) \div 2, y |-> (h - size) \div 2, w |-> size, h |-> size]

CropImgLoad ==
  /\ activeTool = "crop"
  /\ cropLoads > 0
  /\ crop' = CropCentered
  /\ cropLoads' = cropLoads - 1
  /\ lastEvent' = NoEvent
  /\ UNCHANGED dragRef
  /\ UNCHANGED <<activeTool, isProcessing, undoStack, currentImageUri,
                 brightness, contrast, saturation, compressionQuality, overlay,
                 pending, readers, opsStarted, overlaps, run>>
  /\ UNCHANGED gestureVars

\* ------------------------------------------------------- gesture engine
\* Lengths and velocities are integers in 1/PX px, scales in 1/ScaleUnit; a
\* product of a fraction is truncated towards zero.  NaN is the one value of
\* JavaScript arithmetic that the engine can produce and that is no number:
\* every operation on it yields it and every comparison with it is false.
TruncDiv(a, b) == IF a >= 0 THEN a \div b ELSE -((-a) \div b)
IsNaN(a) == a = NaN
Add(a, b) == IF IsNaN(a) \/ IsNaN(b) THEN NaN ELSE a + b
Sub(a, b) == IF IsNaN(a) \/ IsNaN(b) THEN NaN ELSE a - b
\* a * n / d for a constant fraction n / d.
Frac(a, n, d) == IF IsNaN(a) THEN NaN ELSE TruncDiv(a * n, d)
\* Math.abs(a) < b and Math.abs(a) > b.
AbsBelow(a, b) == ~IsNaN(a) /\ Abs(a) < b
AbsAbove(a, b) == ~IsNaN(a) /\ Abs(a) > b

\* clamp(v, a, b) = Math.max(a, Math.min(b, v)).
Clamp(v, a, b) == IF IsNaN(v) THEN NaN ELSE Max(a, Min(b, v))

RECURSIVE SqrtBetween(_, _, _)
SqrtBetween(n, lo, hi) ==
  IF lo = hi THEN lo
  ELSE LET mid == (lo + hi + 1) \div 2
       IN IF mid * mid <= n THEN SqrtBetween(n, mid, hi)
          ELSE SqrtBetween(n, lo, mid - 1)

\* getDistanceBetween: Math.hypot(dx, dy).
GetDistanceBetween(a, b) ==
  LET dx == a.x - b.x
      dy == a.y - b.y
  IN SqrtBetween(dx * dx + dy * dy, 0, Max(Abs(dx), Abs(dy)) * 2)

\* getMidpoint.
GetMidpoint(a, b) == [x |-> (a.x + b.x) \div 2, y |-> (a.y + b.y) \div 2]

\* The centre of the <img> layout box: <main> centres it (flex, items-center,
\* justify-center); client coordinates are taken from the corner of <main>.
ImgCenter ==
  [x |-> (containerRef[1] * PX) \div 2, y |-> (containerRef[2] * PX) \div 2]

\* imgRect.left + imgRect.width / 2 and imgRect.top + imgRect.height / 2:
\* the bounding rect follows the style the loop last wrote (the displayed
\* transform); scaling about the centre leaves the centre in place.  A
\* transform holding NaN is no valid style: the node keeps the last valid one,
\* which the model does not track, so the centre is then not a number.
ImgRectCenter ==
  [x |-> Add(ImgCenter.x, transformRef.tx),
   y |-> Add(ImgCenter.y, transformRef.ty)]

\* <main> receives a pointer event of a pointer it has not captured only
\* where neither the processing overlay nor the modal covers it.
MainHit == ~isProcessing /\ ~ModalOpen

Tracked(id) == \E i \in 1..Len(pointers) : pointers[i].id = id
IndexOf(id) == CHOOSE i \in 1..Len(pointers) : pointers[i].id = id
PointerAt(p) == [x |-> p[1] * PX, y |-> p[2] * PX]

\* pointers.current.set(id, e): a Map keeps insertion order, a set on a key
\* it holds replaces the value in place.
SetPointer(id, pos) ==
  IF Tracked(id) THEN [pointers EXCEPT ![IndexOf(id)].pos = pos]
  ELSE Append(pointers, [id |-> id, pos |-> pos])

GestureEvent(h, kind) ==
  [h |-> h, kind |-> kind, out |-> "none", alert |-> "none", src |-> <<>>,
   stk |-> <<>>]

\* The frame of a handler that drops the overlay when the image is touched.
GestureFrameDropsOverlay ==
  /\ overlay' = <<>>
  /\ UNCHANGED <<activeTool, isProcessing, undoStack, currentImageUri,
                 brightness, contrast, saturation, compressionQuality,
                 pending, readers, opsStarted, overlaps, run>>
  /\ UNCHANGED <<cropVars, containerRef, overlayDrags>>

\* What no pointer event and no tick touches.
GestureFrame ==
  /\ UNCHANGED <<activeTool, isProcessing, undoStack, currentImageUri,
                 brightness, contrast, saturation, compressionQuality, overlay,
                 pending, readers, opsStarted, overlaps, run>>
  /\ UNCHANGED <<cropVars, containerRef, overlayDrags>>

\* startLoop without its first line: every call requests a frame.
StartLoopUnguarded ==
  /\ isAnimatingRef' = TRUE
  /\ rafPending' = rafPending + 1

\* startLoop: if (isAnimatingRef.current) return; ... requestAnimationFrame.
StartLoop ==
  /\ isAnimatingRef' = TRUE
  /\ rafPending' = IF isAnimatingRef THEN rafPending ELSE rafPending + 1

EventAllowed(d) == pointerEvents < d

\* onPointerDown without the velocity reset.
OnPointerDownKeepsVelocity(d, id, p) ==
  /\ EventAllowed(d) /\ MainHit /\ ~Tracked(id)
  /\ pointerEvents' = pointerEvents + 1
  /\ pointers' = SetPointer(id, PointerAt(p))
  /\ UNCHANGED velocityRef
  /\ lastPointerRef' = <<PointerAt(p)>>
  /\ StartLoop
  /\ lastEvent' = GestureEvent("pointerdown", "down")
  /\ UNCHANGED <<transformRef, targetRef, lastPinchDistance, ticks>>
  /\ GestureFrame

\* onPointerDown.
OnPointerDown(d, id, p) ==
  /\ EventAllowed(d) /\ MainHit /\ ~Tracked(id)
  /\ pointerEvents' = pointerEvents + 1
  /\ pointers' = SetPointer(id, PointerAt(p))
  /\ velocityRef' = ZeroVelocity
  /\ lastPointerRef' = <<PointerAt(p)>>
  /\ StartLoop
  /\ lastEvent' = GestureEvent("pointerdown", "down")
  /\ UNCHANGED <<transformRef, targetRef, lastPinchDistance, ticks>>
  /\ GestureFrame

\* onPointerMove, one tracked pointer: the velocity is set from the last
\* sample (dx / (dt / (1000 / 60)), dt = Math.max(1, elapsed ms)), the sample
\* is replaced, and only then is the target moved by the distance to the
\* (new) sample.
PanVelocity(p, dt) ==
  IF lastPointerRef = <<>> THEN velocityRef
  ELSE [vx |-> TruncDiv((p.x - lastPointerRef[1].x) * 1000,
                        FrameHz * Max(1, dt)),
        vy |-> TruncDiv((p.y - lastPointerRef[1].y) * 1000,
                        FrameHz * Max(1, dt))]

PanTarget(p, last) ==
  [tx |-> Add(targetRef.tx, p.x - last.x),
   ty |-> Add(targetRef.ty, p.y - last.y),
   scale |-> Clamp(targetRef.scale, MinScale, MaxScale)]

\* onPointerMove, two or more tracked pointers: the first two of the table.
\* _lastPinchDistance is falsy when null and when 0.
PinchPrevDist(dist) ==
  IF lastPinchDistance = 0 THEN dist ELSE lastPinchDistance

\* clamp(prevScale * (dist / prevDist), 0.3, 4); 0 / 0 is NaN.
PinchScale(prevScale, dist, prevDist) ==
  IF prevDist = 0 \/ IsNaN(prevScale) THEN NaN
  ELSE Clamp(TruncDiv(prevScale * dist, prevDist), MinScale, MaxScale)

\* t - (newScale / prevScale - 1) * c.
PinchShift(t, newScale, prevScale, c) ==
  IF IsNaN(t) \/ IsNaN(newScale) \/ IsNaN(prevScale) \/ IsNaN(c) THEN NaN
  ELSE t - TruncDiv((newScale - prevScale) * c, prevScale)

PinchTarget(a, b) ==
  LET dist == GetDistanceBetween(a, b)
      mid == GetMidpoint(a, b)
      prevScale == targetRef.scale
      newScale == PinchScale(prevScale, dist, PinchPrevDist(dist))
      cx == Sub(mid.x, ImgRectCenter.x)
      cy == Sub(mid.y, ImgRectCenter.y)
  IN [tx |-> PinchShift(targetRef.tx, newScale, prevScale, cx),
      ty |-> PinchShift(targetRef.ty, newScale, prevScale, cy),
      scale |-> newScale]

OnPointerMove(d, id, p, dt) ==
  /\ EventAllowed(d)
  /\ Tracked(id) \/ MainHit
  /\ pointerEvents' = pointerEvents + 1
  /\ IF ~Tracked(id)
     THEN /\ lastEvent' = GestureEvent("pointermove", "ignored")
          /\ UNCHANGED <<transformRef, targetRef, lastPinchDistance,
                         velocityRef, pointers, lastPointerRef, isAnimatingRef,
                         rafPending>>
     ELSE LET pts == SetPointer(id, PointerAt(p))
          IN /\ pointers' = pts
             /\ IF Len(pts) = 1
                THEN /\ velocityRef' = PanVelocity(pts[1].pos, dt)
                     /\ lastPointerRef' = <<pts[1].pos>>
                     /\ targetRef' = PanTarget(pts[1].pos, pts[1].pos)
                     /\ lastEvent' = GestureEvent("pointermove", "pan")
                     /\ UNCHANGED lastPinchDistance
                ELSE /\ targetRef' = PinchTarget(pts[1].pos, pts[2].pos)
                     /\ lastPinchDistance' =
                          GetDistanceBetween(pts[1].pos, pts[2].pos)
                     /\ lastEvent' = GestureEvent("pointermove", "pinch")
                     /\ UNCHANGED <<velocityRef, lastPointerRef>>
             /\ StartLoop
             /\ UNCHANGED transformRef
  /\ UNCHANGED ticks
  /\ GestureFrame

\* onPointerUp without pointers.current.delete(e.pointerId).
OnPointerUpKeepsPointer(d, id) ==
  /\ EventAllowed(d)
  /\ Tracked(id) \/ MainHit
  /\ pointerEvents' = pointerEvents + 1
  /\ pointers' = pointers
  /\ lastPinchDistance' = 0
  /\ lastPointerRef' = <<>>
  /\ StartLoop
  /\ lastEvent' = GestureEvent("pointerup", "up")
  /\ UNCHANGED <<transformRef, targetRef, velocityRef, ticks>>
  /\ GestureFrame

\* onPointerUp, bound to pointerup.
OnPointerUp(d, id) ==
  /\ EventAllowed(d)
  /\ Tracked(id) \/ MainHit
  /\ pointerEvents' = pointerEvents + 1
  /\ pointers' = IF Tracked(id) THEN RemoveAt(pointers, IndexOf(id))
                 ELSE pointers
  /\ lastPinchDistance' = 0
  /\ lastPointerRef' = <<>>
  /\ StartLoop
  /\ lastEvent' = GestureEvent("pointerup", "up")
  /\ UNCHANGED <<transformRef, targetRef, velocityRef, ticks>>
  /\ GestureFrame

\* <main onPointerCancel={onPointerUp}>.
OnPointerCancel(d, id) == OnPointerUp(d, id)

\* loop, one animation frame.
Flinging ==
  \/ AbsAbove(velocityRef.vx, VelocityGate)
  \/ AbsAbove(velocityRef.vy, VelocityGate)

Eased(cur, tgt) == Add(cur, Frac(Sub(tgt, cur), EasePct, 100))

LoopTransform ==
  LET tx == Eased(transformRef.tx, targetRef.tx)
      ty == Eased(transformRef.ty, targetRef.ty)
  IN [tx |-> IF Flinging THEN Add(tx, velocityRef.vx) ELSE tx,
      ty |-> IF Flinging THEN Add(ty, velocityRef.vy) ELSE ty,
      scale |-> Eased(transformRef.scale, targetRef.scale)]

LoopVelocity ==
  IF Flinging
  THEN [vx |-> Frac(velocityRef.vx, FrictionPct, 100),
        vy |-> Frac(velocityRef.vy, FrictionPct, 100)]
  ELSE velocityRef

CloseEnough(cur, v) ==
  /\ AbsBelow(Sub(targetRef.tx, cur.tx), StopDistance)
  /\ AbsBelow(Sub(targetRef.ty, cur.ty), StopDistance)
  /\ AbsBelow(Sub(targetRef.scale, cur.scale), StopScale)
  /\ AbsBelow(v.vx, StopVelocity)
  /\ AbsBelow(v.vy, StopVelocity)

\* The stop branch left as a slip would leave it: the display keeps the last
\* eased value.
FinalTransformNotSnapped == LoopTransform

\* finalize values: transformRef.current = { ...tgt }.
FinalTransform == targetRef

LoopFrame ==
  /\ rafPending > 0
  /\ IF CloseEnough(LoopTransform, LoopVelocity)
     THEN /\ transformRef' = FinalTransform
          /\ isAnimatingRef' = FALSE
          /\ velocityRef' = ZeroVelocity
          /\ rafPending' = rafPending - 1
     ELSE /\ transformRef' = LoopTransform
          /\ velocityRef' = LoopVelocity
          /\ UNCHANGED <<isAnimatingRef, rafPending>>
  /\ lastEvent' = GestureEvent("tick", "tick")
  /\ UNCHANGED <<targetRef, lastPinchDistance, pointers, lastPointerRef>>
  /\ GestureFrame

\* A frame callback that runs while the user is still gesturing.
Loop(d) ==
  /\ ticks < d
  /\ ticks' = ticks + 1
  /\ UNCHANGED pointerEvents
  /\ LoopFrame

\* A frame callback that runs after the last pointer event of the gesture:
\* requestAnimationFrame keeps calling back for as long as loop asks.
LoopAtRest(e) ==
  /\ pointerEvents = e
  /\ UNCHANGED <<pointerEvents, ticks>>
  /\ LoopFrame

\* ----------------------------------------------------- overlay box drag
\* The window listeners of the drags started on the overlay box: each keeps
\* the pointer position and the overlay position of its pointerdown.
OverlayFrame ==
  /\ lastEvent' = NoEvent
  /\ pointerEvents' = pointerEvents + 1
  /\ UNCHANGED <<activeTool, isProcessing, undoStack, currentImageUri,
                 brightness, contrast, saturation, compressionQuality,
                 pending, readers, opsStarted, overlaps, run>>
  /\ UNCHANGED cropVars
  /\ UNCHANGED <<transformRef, targetRef, lastPinchDistance, velocityRef,
                 pointers, lastPointerRef, isAnimatingRef, rafPending, ticks,
                 containerRef>>

OnOverlayBox(pos) ==
  /\ overlay # <<>>
  /\ overlay[1].x <= pos.x /\ pos.x <= overlay[1].x + overlay[1].width
  /\ overlay[1].y <= pos.y /\ pos.y <= overlay[1].y + overlay[1].height

\* Overlay box onPointerDown: window.addEventListener("pointermove", move)
\* and ("pointerup", up).  The event goes on to <main>'s onPointerDown.
OverlayPointerDown(d, p) ==
  /\ EventAllowed(d)
  /\ MainHit
  /\ OnOverlayBox(PointerAt(p))
  /\ Len(overlayDrags) < MaxInFlight
  /\ overlayDrags' = Append(overlayDrags,
                            [startX |-> PointerAt(p).x,
                             startY |-> PointerAt(p).y,
                             x |-> overlay[1].x, y |-> overlay[1].y])
  /\ UNCHANGED overlay
  /\ OverlayFrame

\* One move listener: setOverlay((o) => o ? {...o, x: clamp(start.x + dx, 0,
\* clientWidth - o.width), y: clamp(start.y + dy, 0, clientHeight - o.height)}
\* : null).
DragMoved(o, drag, pos) ==
  [o EXCEPT !.x = Clamp(drag.x + (pos.x - drag.startX), 0,
                        containerRef[1] * PX - o.width),
            !.y = Clamp(drag.y + (pos.y - drag.startY), 0,
                        containerRef[2] * PX - o.height)]

\* The move listeners run in the order they were added.
RECURSIVE DragsMoved(_, _, _)
DragsMoved(o, drags, pos) ==
  IF drags = <<>> THEN o
  ELSE DragsMoved(DragMoved(o, Head(drags), pos), Tail(drags), pos)

\* A pointermove reaches window while drags are registered: the listeners do
\* not look at the pointer id.
OverlayMove(d, p) ==
  /\ EventAllowed(d)
  /\ overlayDrags # <<>>
  /\ overlay' = IF overlay = <<>> THEN <<>>
                ELSE <<DragsMoved(overlay[1], overlayDrags, PointerAt(p))>>
  /\ UNCHANGED overlayDrags
  /\ OverlayFrame

\* A pointerup reaches window: every up listener removes its drag.
OverlayUp(d) ==
  /\ EventAllowed(d)
  /\ overlayDrags # <<>>
  /\ overlayDrags' = <<>>
  /\ UNCHANGED overlay
  /\ OverlayFrame

\* ------------------------------------------------------ crop tool drags
\* Pointer events on the crop box and its two handles (CropTool).
CropFrame ==
  /\ lastEvent' = NoEvent
  /\ pointerEvents' = pointerEvents + 1
  /\ UNCHANGED <<activeTool, isProcessing, undoStack, currentImageUri,
                 brightness, contrast, saturation, compressionQuality,
                 overlay, pending, readers, opsStarted, overlaps, run>>
  /\ UNCHANGED cropLoads
  /\ UNCHANGED <<transformRef, targetRef, lastPinchDistance, velocityRef,
                 pointers, lastPointerRef, isAnimatingRef, rafPending, ticks,
                 containerRef, overlayDrags>>

\* A handle is a 16 x 16 square centred on a corner of the box.
OnHandle(pos, cx, cy) ==
  /\ cx - CropHandle * PX <= pos.x /\ pos.x <= cx + CropHandle * PX
  /\ cy - CropHandle * PX <= pos.y /\ pos.y <= cy + CropHandle * PX

\* The element under the pointer: the handles are children of the box and
\* are painted over it, the nw handle last.
CropHit(pos) ==
  IF OnHandle(pos, crop.x, crop.y) THEN "nw"
  ELSE IF OnHandle(pos, crop.x + crop.w, crop.y + crop.h) THEN "se"
  ELSE IF /\ crop.x <= pos.x /\ pos.x <= crop.x + crop.w
          /\ crop.y <= pos.y /\ pos.y <= crop.y + crop.h THEN "move"
  ELSE "none"

\* startDrag(mode, e).
StartDrag(mode, pos) ==
  [mode |-> mode, startX |-> pos.x, startY |-> pos.y, startCrop |-> crop]

\* The onPointerDown handlers a pointerdown runs, target first: a handle's
\* startDrag("se" | "nw") does not stop the event, which goes on to the
\* box's startDrag("move").
DownHandlers(hit) == IF hit = "move" THEN <<"move">> ELSE <<hit, "move">>

CropPointerDown(d, p) ==
  /\ EventAllowed(d)
  /\ FooterClickable("crop")
  /\ CropHit(PointerAt(p)) # "none"
  /\ LET hs == DownHandlers(CropHit(PointerAt(p)))
     IN dragRef' = StartDrag(hs[Len(hs)], PointerAt(p))
  /\ UNCHANGED crop
  /\ CropFrame

\* onMove whose nw branch moves the corner without taking the distance from
\* the size.
OnMoveNwKeepsSize(c, drag, pos) ==
  LET dx == pos.x - drag.startX
      dy == pos.y - drag.startY
      sc == drag.startCrop
      cw == CropContainer[1] * PX
      ch == CropContainer[2] * PX
      nx == Clamp(sc.x + dx, 0, sc.x + sc.w - CropMinSize * PX)
      ny == Clamp(sc.y + dy, 0, sc.y + sc.h - CropMinSize * PX)
  IN CASE drag.mode = "move" ->
            [c EXCEPT !.x = Clamp(sc.x + dx, 0, cw - c.w),
                      !.y = Clamp(sc.y + dy, 0, ch - c.h)]
       [] drag.mode = "se" ->
            [c EXCEPT !.w = Clamp(sc.w + dx, CropMinSize * PX, cw - sc.x),
                      !.h = Clamp(sc.h + dy, CropMinSize * PX, ch - sc.y)]
       [] drag.mode = "nw" ->
            [x |-> nx, y |-> ny, w |-> sc.w, h |-> sc.h]
       [] OTHER -> c

\* onMove with dragRef.current set.
OnMove(c, drag, pos) ==
  LET dx == pos.x - drag.startX
      dy == pos.y - drag.startY
      sc == drag.startCrop
      cw == CropContainer[1] * PX
      ch == CropContainer[2] * PX
      nx == Clamp(sc.x + dx, 0, sc.x + sc.w - CropMinSize * PX)
      ny == Clamp(sc.y + dy, 0, sc.y + sc.h - CropMinSize * PX)
  IN CASE drag.mode = "move" ->
            [c EXCEPT !.x = Clamp(sc.x + dx, 0, cw - c.w),
                      !.y = Clamp(sc.y + dy, 0, ch - c.h)]
       [] drag.mode = "se" ->
            [c EXCEPT !.w = Clamp(sc.w + dx, CropMinSize * PX, cw - sc.x),
                      !.h = Clamp(sc.h + dy, CropMinSize * PX, ch - sc.y)]
       [] drag.mode = "nw" ->
            [x |-> nx, y |-> ny, w |-> sc.w + (sc.x - nx),
             h |-> sc.h + (sc.y - ny)]
       [] OTHER -> c

\* The onPointerDown of a handle taken alone: startDrag("se" | "nw", e), as
\* it runs before the event goes on to the box.
StartDragOnHandle(d, p) ==
  /\ EventAllowed(d)
  /\ FooterClickable("crop")
  /\ CropHit(PointerAt(p)) \in {"se", "nw"}
  /\ dragRef' = StartDrag(CropHit(PointerAt(p)), PointerAt(p))
  /\ UNCHANGED crop
  /\ CropFrame

\* onPointerMove of the box; the pointer is captured by the element that
\* received the down, so the move arrives wherever the pointer is.
CropPointerMove(d, p) ==
  /\ EventAllowed(d)
  /\ activeTool = "crop"
  /\ dragRef.mode # "none"
  /\ crop' = OnMove(crop, dragRef, PointerAt(p))
  /\ UNCHANGED dragRef
  /\ CropFrame

\* endDrag: dragRef.current = null.
CropPointerUp(d) ==
  /\ EventAllowed(d)
  /\ activeTool = "crop"
  /\ dragRef.mode # "none"
  /\ dragRef' = NoDrag
  /\ UNCHANGED crop
  /\ CropFrame

\* ------------------------------------------------------- specifications
\* The editor mounted on an imported image of one of the sizes dims, <main>
\* laid out at one of the sizes conts.
InitIn(dims, conts) ==
  /\ activeTool = "none"
  /\ isProcessing = FALSE
  /\ undoStack = <<>>
  /\ currentImageUri \in {<<"orig", d>> : d \in dims}
  /\ brightness = SliderDefault
  /\ contrast = SliderDefault
  /\ saturation = SliderDefault
  /\ compressionQuality = DefaultQuality
  /\ overlay = <<>>
  /\ pending = <<>>
  /\ readers = <<>>
  /\ lastEvent = NoEvent
  /\ opsStarted = 0
  /\ overlaps = 0
  /\ run = [phase |-> "edits", rasters |-> <<currentImageUri>>, undos |-> 0]
  /\ crop = CropInit
  /\ dragRef = NoDrag
  /\ cropLoads = 0
  /\ transformRef = Identity
  /\ targetRef = Identity
  /\ lastPinchDistance = 0
  /\ velocityRef = ZeroVelocity
  /\ pointers = <<>>
  /\ lastPointerRef = <<>>
  /\ isAnimatingRef = FALSE
  /\ rafPending = 0
  /\ pointerEvents = 0
  /\ ticks = 0
  /\ containerRef \in conts
  /\ overlayDrags = <<>>

InitWith(dims) == InitIn(dims, {MainContainer})

Init == InitWith(OrigDims)

\* The editor: every tool, chains of at most MaxOps edits.
Next ==
  \/ \E t \in NavTools : ToolClick(t)
  \/ ModalClose
  \/ HandleSave(<<MaxOps, MaxOps>>)
  \/ HandleExport(<<MaxOps, MaxOps>>)
  \/ HandleBackgroundRemove(<<MaxOps, MaxOps>>)
  \/ HandleImproveQuality(<<MaxOps, MaxOps>>)
  \/ \E r \in Ratios : RatioClick(<<MaxOps, MaxOps>>, r)
  \/ FlipHClick(<<MaxOps, MaxOps>>)
  \/ RotateClick(<<MaxOps, MaxOps>>)
  \/ CompressApply(<<MaxOps, MaxOps>>)
  \/ EnhanceApply(<<MaxOps, MaxOps>>)
  \/ ApplyCrop(<<MaxOps, MaxOps>>)
  \/ HandleApplyOverlay(<<MaxOps, MaxOps>>)
  \/ \E i \in 1..MaxInFlight, out \in {"ok", "decodeFail", "noCtx",
                                       "rejected", "shareFail"} :
       Complete(i, out)
  \/ HandleUndo
  \/ \E f \in Files : ImportFile(f)
  \/ \E i \in 1..MaxInFlight : ReaderLoad(i)
  \/ CancelImport
  \/ \E v \in OpacityValues : SetOpacity(v)
  \/ CropCancel
  \/ CropImgLoad

Spec == Init /\ [][Next]_vars

\* The undo stack in depth: up to MaxDeep flips, at most MaxOverlap of them
\* triggered while another is pending, and Undo, in any interleaving.
NextUndo ==
  \/ ToolClick("flip")
  \/ ModalClose
  \/ FlipHClick(<<MaxDeep, MaxOverlap>>)
  \/ \E i \in 1..MaxInFlight, out \in {"ok", "decodeFail", "noCtx"} :
       Complete(i, out)
  \/ HandleUndo

SpecUndo == Init /\ [][NextUndo]_vars

\* The view: up to MaxEvents pointer events and MaxTicks animation frames in
\* any interleaving, with an overlay import and Undo beside them.
NextView ==
  \/ \E id \in PointerIds, p \in Positions : OnPointerDown(MaxEvents, id, p)
  \/ \E id \in PointerIds, p \in Positions, dt \in Elapsed :
       OnPointerMove(MaxEvents, id, p, dt)
  \/ \E id \in PointerIds : OnPointerUp(MaxEvents, id)
  \/ Loop(MaxTicks)
  \/ HandleUndo
  \/ \E f \in Files : ImportFile(f)
  \/ \E i \in 1..MaxInFlight : ReaderLoad(i)

SpecView == Init /\ [][NextView]_vars

\* A gesture and the rest after it: up to MaxRestEvents pointer events with
\* up to MaxTicks frames between them, then the frames requestAnimationFrame
\* delivers once the pointer events have stopped.
NextRest ==
  \/ \E id \in PointerIds, p \in Positions :
       OnPointerDown(MaxRestEvents, id, p)
  \/ \E id \in PointerIds, p \in Positions, dt \in Elapsed :
       OnPointerMove(MaxRestEvents, id, p, dt)
  \/ \E id \in PointerIds : OnPointerUp(MaxRestEvents, id)
  \/ Loop(MaxTicks)
  \/ LoopAtRest(MaxRestEvents)

SpecRest == Init /\ [][NextRest]_vars

\* The browser runs every requested animation frame callback.
SpecRestFair == SpecRest /\ WF_vars(LoopAtRest(MaxRestEvents))

\* Gestures beside edits: up to MaxRestEvents pointer events and MaxTicks
\* frames in any interleaving with flips, undos and an overlay import.
NextEdit ==
  \/ \E id \in PointerIds, p \in Positions :
       OnPointerDown(MaxRestEvents, id, p)
  \/ \E id \in PointerIds, p \in Positions, dt \in Elapsed :
       OnPointerMove(MaxRestEvents, id, p, dt)
  \/ \E id \in PointerIds : OnPointerUp(MaxRestEvents, id)
  \/ Loop(MaxTicks)
  \/ ToolClick("flip")
  \/ ModalClose
  \/ FlipHClick(<<MaxEditOps, MaxOverlap>>)
  \/ \E i \in 1..MaxInFlight : Complete(i, "ok")
  \/ HandleUndo
  \/ \E f \in Files : ImportFile(f)
  \/ \E i \in 1..MaxInFlight : ReaderLoad(i)

SpecEdit == Init /\ [][NextEdit]_vars

\* The ratio tool on images of every size up to MaxSide x MaxSide and of the
\* size of OrigDims: chains of at most MaxRatioOps ratio crops, one at a time.
RatioDims == ((1..MaxSide) \X (1..MaxSide)) \union OrigDims

NextRatio ==
  \/ ToolClick("ratio")
  \/ ModalClose
  \/ \E r \in Ratios : RatioClick(<<MaxRatioOps, 0>>, r)
  \/ \E i \in 1..MaxInFlight : Complete(i, "ok")

SpecRatio == InitWith(RatioDims) /\ [][NextRatio]_vars

\* The flip tool on images of every size up to MaxPix x MaxPix: chains of at
\* most MaxFlipOps flips and rotations, one at a time.
PixelDims == (1..MaxPix) \X (1..MaxPix)

NextFlip ==
  \/ ToolClick("flip")
  \/ ModalClose
  \/ FlipHClick(<<MaxFlipOps, 0>>)
  \/ RotateClick(<<MaxFlipOps, 0>>)
  \/ \E i \in 1..MaxInFlight : Complete(i, "ok")

SpecFlip == InitWith(PixelDims) /\ [][NextFlip]_vars

\* The enhance and compress tools: the four sliders and chains of at most
\* MaxAdjustOps applies, one at a time.
NextAdjust ==
  \/ ToolClick("enhance")
  \/ ToolClick("compress")
  \/ ModalClose
  \/ \E v \in SliderValues : SetBrightness(v)
  \/ \E v \in SliderValues : SetContrast(v)
  \/ \E v \in SliderValues : SetSaturation(v)
  \/ \E v \in QualityValues : SetCompressionQuality(v)
  \/ EnhanceApply(<<MaxAdjustOps, 0>>)
  \/ CompressApply(<<MaxAdjustOps, 0>>)
  \/ \E i \in 1..MaxInFlight : Complete(i, "ok")

SpecAdjust == Init /\ [][NextAdjust]_vars

\* The overlay: import, cancel, opacity, drags of the overlay box with up to
\* MaxDragEvents pointer events, and at most MaxOverlayOps applies, in <main>
\* laid out at each of the sizes Containers.
NextOverlay ==
  \/ \E f \in Files : ImportFile(f)
  \/ \E i \in 1..MaxInFlight : ReaderLoad(i)
  \/ CancelImport
  \/ \E v \in OpacityValues : SetOpacity(v)
  \/ \E p \in DragPositions : OverlayPointerDown(MaxDragEvents, p)
  \/ \E p \in DragPositions : OverlayMove(MaxDragEvents, p)
  \/ OverlayUp(MaxDragEvents)
  \/ HandleApplyOverlay(<<MaxOverlayOps, 0>>)
  \/ \E i \in 1..MaxInFlight : Complete(i, "ok")

SpecOverlay == InitIn(OverlayDims, Containers) /\ [][NextOverlay]_vars

\* The crop tool: mount, centring load, drags of the box and its handles,
\* apply, cancel.
NextCrop ==
  \/ ToolClick("crop")
  \/ CropImgLoad
  \/ CropCancel
  \/ \E p \in CropPositions : CropPointerDown(MaxCropEvents, p)
  \/ \E p \in CropPositions : CropPointerMove(MaxCropEvents, p)
  \/ CropPointerUp(MaxCropEvents)
  \/ ApplyCrop(<<MaxCropOps, 0>>)
  \/ Complete(1, "ok")

SpecCrop == Init /\ [][NextCrop]_vars

\* The resize branches of onMove: the drag handlers with a handle's own
\* startDrag as the last to have run at the pointerdown.
NextHandle ==
  \/ ToolClick("crop")
  \/ CropImgLoad
  \/ \E p \in CropPositions : StartDragOnHandle(MaxHandleEvents, p)
  \/ \E p \in CropPositions : CropPointerMove(MaxHandleEvents, p)
  \/ CropPointerUp(MaxHandleEvents)

SpecHandle == Init /\ [][NextHandle]_vars

\* Crop after crop of the same image: the tool is opened, the rectangle is
\* applied as mounted or as centred, and the result is cropped again.
NextShrink ==
  \/ ToolClick("crop")
  \/ CropImgLoad
  \/ ApplyCrop(<<MaxShrinkOps, 0>>)
  \/ Complete(1, "ok")

SpecShrink == Init /\ [][NextShrink]_vars

\* Slow and fast moves of up to two pointers with frames between them.
NextSlow ==
  \/ \E id \in PointerIds, p \in SlowPositions :
       OnPointerDown(MaxSlowEvents, id, p)
  \/ \E id \in PointerIds, p \in SlowPositions, dt \in SlowElapsed :
       OnPointerMove(MaxSlowEvents, id, p, dt)
  \/ \E id \in PointerIds : OnPointerUp(MaxSlowEvents, id)
  \/ Loop(MaxSlowTicks)

SpecSlow == Init /\ [][NextSlow]_vars

\* Up to three pointers on <main>, with a frame between their events.
NextThree ==
  \/ \E id \in ThreePointerIds, p \in Positions :
       OnPointerDown(MaxThreeEvents, id, p)
  \/ \E id \in ThreePointerIds, p \in Positions, dt \in Elapsed :
       OnPointerMove(MaxThreeEvents, id, p, dt)
  \/ \E id \in ThreePointerIds : OnPointerUp(MaxThreeEvents, id)
  \/ \E id \in ThreePointerIds : OnPointerCancel(MaxThreeEvents, id)
  \/ Loop(MaxThreeTicks)

SpecThree == Init /\ [][NextThree]_vars

\* ------------------------------------------------------------ undo stack
\* C1: after N sequential successful edits from an empty stack the stack
\* holds min(N, 10) rasters, and k <= min(N, 10) undos then leave the raster
\* that was current k edits before the last one as the current raster, with
\* min(N, 10) - k rasters left on the stack.
C1_SequentialEditsThenUndos ==
  run.phase \in {"edits", "undos"} =>
    LET N == Len(run.rasters) - 1
        k == run.undos
    IN /\ k <= Min(N, UndoCapacity)
       /\ Len(undoStack) = Min(N, UndoCapacity) - k
       /\ currentImageUri = run.rasters[N + 1 - k]
       /\ \A j \in 1..Len(undoStack) : undoStack[j] = run.rasters[N + 1 - k - j]

\* More edits than the capacity, then every raster the stack held restored.
C1_Witness ==
  /\ run.phase = "undos"
  /\ Len(run.rasters) = UndoCapacity + 2
  /\ run.undos = UndoCapacity
  /\ undoStack = <<>>
  /\ currentImageUri = run.rasters[2]

\* A step that pushes onto the undo stack: an operation completes
\* successfully and replaces the current raster.
PushStep ==
  /\ pending' # pending
  /\ lastEvent'.h = "complete"
  /\ lastEvent'.out = "ok"
  /\ lastEvent'.kind # "export"

\* C2: in every reachable state, whatever the interleaving of edits, saves
\* and undos, the undo stack holds at most 10 rasters; a push onto a stack of
\* 10 drops exactly the oldest raster and keeps the other 9 in order behind
\* the new head.
C2_StackBounded ==
  /\ [](Len(undoStack) <= UndoCapacity)
  /\ [][PushStep /\ Len(undoStack) = UndoCapacity =>
          /\ Len(undoStack') = UndoCapacity
          /\ undoStack'[1] = lastEvent'.src
          /\ \A j \in 1..UndoKeep : undoStack'[j + 1] = undoStack[j]]_vars

\* A push onto a full stack has happened.
C2_Witness ==
  /\ lastEvent.h = "complete"
  /\ lastEvent.out = "ok"
  /\ Len(lastEvent.stk) = UndoCapacity
  /\ Len(undoStack) = UndoCapacity
  /\ undoStack[UndoCapacity] = lastEvent.stk[UndoKeep]


\* ------------------------------------------------------- edit operations
\* C3: whenever a successful edit completes, the raster it pushes onto the
\* undo stack is the raster that is current at the moment of replacement, and
\* the new current raster is the operation applied to that same raster, also
\* when another edit or an undo completed since the operation started.
C3_PushArchivesCurrent ==
  [][PushStep =>
       /\ undoStack'[1] = currentImageUri
       /\ currentImageUri'[3] = currentImageUri]_vars

\* C4: at most one pipeline operation is in flight at any time: a trigger
\* that arrives while another operation is in flight starts no second one.
C4_AtMostOneInFlight == Cardinality(Live(pending)) <= 1

\* A step in which an operation ends in a failure.
FailStep ==
  /\ pending' # pending
  /\ lastEvent'.h = "complete"
  /\ lastEvent'.out # "ok"

\* C5: when an operation fails (decode failure, canvas context unavailable,
\* background-removal rejection), the current raster and the undo stack equal
\* their values before the operation started and the failure is reported.
C5_FailureLeavesStateAndReports ==
  [][FailStep =>
       /\ currentImageUri' = lastEvent'.src
       /\ undoStack' = lastEvent'.stk
       /\ lastEvent'.alert # "none"]_vars

\* A step in which one of the tools listed by C6 fails to decode its source.
DecodeFailStep ==
  /\ FailStep
  /\ lastEvent'.out = "decodeFail"
  /\ lastEvent'.kind \in {"enhance", "compress", "save", "quality", "overlay",
                          "ratio", "flipH", "rotate"}

\* C6: a decode failure of the source raster aborts the operation, whatever
\* the tool: the operation ends, an error is reported, the processing flag
\* is false again and no state is mutated.
C6_DecodeFailureAborts ==
  [][DecodeFailStep =>
       /\ Len(pending') < Len(pending)
       /\ lastEvent'.alert # "none"
       /\ ~isProcessing'
       /\ UNCHANGED <<currentImageUri, undoStack, overlay, activeTool>>]_vars


\* C7: undo() on an empty undo stack is a no-op: the current raster, the
\* undo stack, the overlay and the transform state are unchanged and no
\* error is raised.
C7_UndoOnEmptyIsNoOp ==
  [][lastEvent'.h = "undo" /\ undoStack = <<>> =>
       /\ UNCHANGED <<currentImageUri, undoStack, overlay>>
       /\ UNCHANGED <<transformRef, targetRef, velocityRef, lastPinchDistance>>
       /\ lastEvent'.out = "empty"
       /\ lastEvent'.alert = "none"]_vars

\* Undo was clicked on an empty stack with an overlay placed and the image
\* zoomed, the display still on its way to the target.
C7_Witness ==
  /\ lastEvent.h = "undo"
  /\ lastEvent.out = "empty"
  /\ undoStack = <<>>
  /\ overlay # <<>>
  /\ targetRef # Identity
  /\ transformRef # Identity
  /\ transformRef # targetRef

\* ------------------------------------------------------------- gestures
ScaleInRange(s) == ~IsNaN(s) /\ MinScale <= s /\ s <= MaxScale

\* C8: in every state reachable by pointer down / move / up / cancel events
\* and animation ticks, for any pointer positions, also when the two pinch
\* pointers coincide, the target scale and the displayed scale are both
\* within [0.3, 4.0].
C8_ScaleInRange ==
  ScaleInRange(targetRef.scale) /\ ScaleInRange(transformRef.scale)

\* C9: with exactly one tracked pointer, a move of that pointer from
\* (x0, y0) to (x1, y1) adds (x1 - x0, y1 - y0) to the target translation and
\* leaves the target scale unchanged.
C9_PanAddsDelta ==
  [][lastEvent'.h = "pointermove" /\ lastEvent'.kind = "pan"
     /\ Len(pointers) = 1 =>
       /\ targetRef'.tx =
            Add(targetRef.tx, pointers'[1].pos.x - pointers[1].pos.x)
       /\ targetRef'.ty =
            Add(targetRef.ty, pointers'[1].pos.y - pointers[1].pos.y)
       /\ targetRef'.scale = targetRef.scale]_vars

\* Where the image point that (t, s) put under screen coordinate m lies under
\* (t2, s2), as a distance from m; c is the coordinate of the image centre.
FocalError(t, s, t2, s2, m, c) ==
  Abs(t2 + TruncDiv(s2 * (m - c - t), s) - (m - c))
FocalTolerance == PX \div 2

\* A pinch update between two numeric target transforms.
PinchStep ==
  /\ lastEvent'.h = "pointermove"
  /\ lastEvent'.kind = "pinch"
  /\ ~IsNaN(targetRef.scale)
  /\ ~IsNaN(targetRef'.scale)

\* C10: for every pinch update of the target transform from (tx, ty, s) to
\* (tx', ty', s'), the image point that the target transform placed under
\* the pinch midpoint before the update is still under the midpoint after it,
\* within rounding tolerance, also while the display lags the target.
C10_FocalPointFixed ==
  [][PinchStep =>
       LET m == GetMidpoint(pointers'[1].pos, pointers'[2].pos)
       IN /\ FocalError(targetRef.tx, targetRef.scale, targetRef'.tx,
                        targetRef'.scale, m.x, ImgCenter.x) <= FocalTolerance
          /\ FocalError(targetRef.ty, targetRef.scale, targetRef'.ty,
                        targetRef'.scale, m.y, ImgCenter.y) <= FocalTolerance]_vars


\* ---------------------------------------------------------------- fling
\* An animation frame runs with no pointer down and a velocity of at least
\* 0.05 px per frame on some axis.
FlingTick ==
  /\ ticks' # ticks
  /\ pointers = <<>>
  /\ ~(AbsBelow(velocityRef.vx, StopVelocity)
       /\ AbsBelow(velocityRef.vy, StopVelocity))

\* C11: after the last pointer is released with non-zero velocity, each
\* animation tick adds the velocity to the target translation and then
\* multiplies the velocity by 0.92 (until both axes are below 0.05), so that
\* the translation at rest is the target translation at release plus the sum
\* of the per-frame velocities.
C11_FlingMovesTarget ==
  [][FlingTick =>
       /\ targetRef'.tx = Add(targetRef.tx, velocityRef.vx)
       /\ targetRef'.ty = Add(targetRef.ty, velocityRef.vy)
       /\ velocityRef'.vx = Frac(velocityRef.vx, FrictionPct, 100)
       /\ velocityRef'.vy = Frac(velocityRef.vy, FrictionPct, 100)]_vars


\* --------------------------------------------------- untracked pointers
\* <main> handles a pointermove, pointerup or pointercancel of a pointer id
\* that the pointer table does not hold.
UntrackedStep ==
  /\ pointerEvents' # pointerEvents
  /\ \/ lastEvent'.kind = "ignored"
     \/ lastEvent'.h = "pointerup" /\ pointers' = pointers

\* C17: a move, up or cancel event whose pointer id is not tracked is
\* ignored: the pointer table, both transforms, the velocity, the
\* last-pointer sample, the stored pinch distance and the loop state are
\* unchanged.
C17_UntrackedEventIgnored ==
  [][UntrackedStep =>
       UNCHANGED <<pointers, transformRef, targetRef, velocityRef,
                   lastPointerRef, lastPinchDistance, isAnimatingRef,
                   rafPending>>]_vars


\* ------------------------------------------------------------ loop at rest
Idle == rafPending = 0

PointerHandlers == {"pointerdown", "pointermove", "pointerup"}

\* C12: whenever the animation loop is Idle (no tick pending), the displayed
\* transform equals the target transform exactly and the velocity is (0,0);
\* once Idle, no tick is scheduled until a new pointer event arrives.
C12_IdleAtTarget ==
  /\ [](Idle => transformRef = targetRef /\ velocityRef = ZeroVelocity)
  /\ [][Idle /\ ~Idle' => lastEvent'.h \in PointerHandlers]_vars
  /\ [][Idle => lastEvent'.h # "tick"]_vars

\* The loop has stopped after easing the display to a zoomed pinch target.
C12_Witness ==
  /\ Idle
  /\ ~isAnimatingRef
  /\ lastEvent.h = "tick"
  /\ targetRef.scale # ScaleUnit
  /\ ~IsNaN(targetRef.scale)
  /\ transformRef = targetRef


\* An animation frame runs.
TickStep == lastEvent'.h = "tick" /\ rafPending > 0 /\ <<LoopFrame>>_vars

\* The frame's stop test as the claim words it, on the values the frame has
\* just computed.
WithinTolerance ==
  /\ AbsBelow(Sub(targetRef.tx, LoopTransform.tx), StopDistance)
  /\ AbsBelow(Sub(targetRef.ty, LoopTransform.ty), StopDistance)
  /\ AbsBelow(Sub(targetRef.scale, LoopTransform.scale), StopScale)

SlowOnBothAxes ==
  /\ AbsBelow(LoopVelocity.vx, StopVelocity)
  /\ AbsBelow(LoopVelocity.vy, StopVelocity)

\* C13: from any reachable state, if no further pointer events arrive, the
\* animation loop eventually becomes Idle; until then a frame reschedules a
\* tick exactly while NOT(|target - display| is below (0.3, 0.3, 0.001) AND
\* both velocity axes are below 0.05).
C13_LoopReachesIdle ==
  /\ (pointerEvents = MaxRestEvents) ~> Idle
  /\ [][TickStep => (~Idle' <=> ~(WithinTolerance /\ SlowOnBothAxes))]_vars


\* The first animation frame after a pointerup (or pointercancel) that left
\* the velocity at (0,0), target and display being finite.
FrameAfterRestingUp ==
  /\ lastEvent.h = "pointerup"
  /\ velocityRef = ZeroVelocity
  /\ ~IsNaN(targetRef.scale)
  /\ lastEvent'.h = "tick"

\* C14: after a pointer-up that leaves zero residual velocity, the animation
\* loop schedules no further frames.
C14_NoFramesAfterRestingUp == [][FrameAfterRestingUp => Idle']_vars


\* ------------------------------------------------- gestures beside edits
\* A step of the gesture engine: one of its pointer handlers or a frame.
GestureStep == lastEvent'.h \in PointerHandlers \union {"tick"}

C16_RasterChangeResetsView ==
  [][currentImageUri' # currentImageUri =>
       /\ transformRef' = Identity
       /\ targetRef' = Identity
       /\ velocityRef' = ZeroVelocity]_vars

\* A flip has just replaced the raster in the middle of a pinch: two pointers
\* are down with a pinch distance stored, and the loop is running.
C16_Witness ==
  /\ lastEvent.h = "complete"
  /\ lastEvent.out = "ok"
  /\ currentImageUri # lastEvent.src
  /\ Len(pointers) = 2
  /\ lastPinchDistance > 0
  /\ isAnimatingRef
  /\ ticks > 0
  /\ transformRef = Identity
  /\ targetRef = Identity
  /\ velocityRef = ZeroVelocity


\* ------------------------------------------------------------ ratio crop
\* n = Math.round(num / den) for den > 0: the nearest integer, a half
\* rounding up.
IsRounded(n, num, den) ==
  /\ 2 * den * n - den <= 2 * num
  /\ 2 * num < 2 * den * n + den

\* A ratio crop completes: the one pending operation is the ratio click.
RatioStep ==
  /\ Len(pending) = 1
  /\ lastEvent'.h = "complete"
  /\ lastEvent'.kind = "ratio"
  /\ lastEvent'.out = "ok"

\* C18: cropToRatio, for every W, H >= 1 and ratio r = rw / rh among 1:1, 4:3,
\* 16:9, 3:4 and 9:16: if W / H > r the output is round(H * r) x H with
\* sx = round((W - cropW) / 2) and sy = 0, otherwise W x round(W / r) with
\* sx = 0 and sy = round((H - cropH) / 2); both output dimensions are >= 1 and
\* the source rectangle lies inside the image.
C18_CropToRatio ==
  [][RatioStep =>
       LET W == Dim(pending[1].src)[1]
           H == Dim(pending[1].src)[2]
           rw == pending[1].arg[1]
           rh == pending[1].arg[2]
           out == currentImageUri'
           sx == out[2][2]
           sy == out[2][3]
           cropW == out[2][4]
           cropH == out[2][5]
       IN /\ out[1] = "png" /\ out[2][1] = "crop" /\ out[3] = pending[1].src
          /\ Dim(out) = <<cropW, cropH>>
          /\ IF W * rh > rw * H
             THEN /\ IsRounded(cropW, H * rw, rh) /\ cropH = H
                  /\ IsRounded(sx, W - cropW, 2) /\ sy = 0
             ELSE /\ cropW = W /\ IsRounded(cropH, W * rh, rw)
                  /\ sx = 0 /\ IsRounded(sy, H - cropH, 2)
          /\ cropW >= 1 /\ cropH >= 1
          /\ sx >= 0 /\ sy >= 0 /\ sx + cropW <= W /\ sy + cropH <= H]_vars

\* The 400 x 300 image cropped to 1:1: 300 x 300 from sx = 50, sy = 0.
C18_Witness ==
  /\ lastEvent.h = "complete"
  /\ lastEvent.kind = "ratio"
  /\ currentImageUri =
       <<"png", <<"crop", 50, 0, 300, 300>>, <<"orig", <<400, 300>>>>>>


\* ------------------------------------------------------- flip and rotate
\* The one pending operation, of the given kind, completes.
CompletesAlone(kind) ==
  /\ Len(pending) = 1
  /\ lastEvent'.h = "complete"
  /\ lastEvent'.kind = kind
  /\ lastEvent'.out = "ok"

\* r is the result of n operations of the given canvas kind in a row.
RECURSIVE InARow(_, _, _)
InARow(r, kind, n) ==
  IF n = 0 THEN TRUE
  ELSE ~IsOrig(r) /\ r[2][1] = kind /\ InARow(r[3], kind, n - 1)

RECURSIVE Before(_, _)
Before(r, n) == IF n = 0 THEN r ELSE Before(r[3], n - 1)

\* C19: flipHorizontal keeps width and height and maps the pixel at (x, y)
\* to (W - 1 - x, y); applying it twice yields an image pixel-identical to
\* the original.
C19_FlipHorizontal ==
  [][CompletesAlone("flipH") =>
       LET src == pending[1].src
           out == currentImageUri'
           W == Dim(src)[1]
           H == Dim(src)[2]
       IN /\ Dim(out) = <<W, H>>
          /\ DOMAIN Pixels(out) = Grid(W, H)
          /\ \A p \in Grid(W, H) :
               Pixels(out)[<<W - 1 - p[1], p[2]>>] = Pixels(src)[p]
          /\ InARow(out, "flipH", 2) =>
               Pixels(out) = Pixels(Before(out, 2))]_vars

\* An image at least two pixels wide has been flipped twice in a row.
C19_Witness ==
  /\ lastEvent.h = "complete"
  /\ lastEvent.kind = "flipH"
  /\ InARow(currentImageUri, "flipH", 2)
  /\ Dim(currentImageUri)[1] >= 2
  /\ Pixels(currentImageUri) = Pixels(Before(currentImageUri, 2))
  /\ Pixels(currentImageUri) # Pixels(Before(currentImageUri, 1))

\* C20: rotate90 on a W x H image yields an H x W image rotated clockwise
\* (the pixel at (x, y) goes to (H - 1 - y, x)); applying it four times
\* restores the original width and height.
C20_Rotate90 ==
  [][CompletesAlone("rotate") =>
       LET src == pending[1].src
           out == currentImageUri'
           W == Dim(src)[1]
           H == Dim(src)[2]
       IN /\ Dim(out) = <<H, W>>
          /\ DOMAIN Pixels(out) = Grid(H, W)
          /\ \A p \in Grid(W, H) :
               Pixels(out)[<<H - 1 - p[2], p[1]>>] = Pixels(src)[p]
          /\ InARow(out, "rotate90", 4) =>
               Dim(out) = Dim(Before(out, 4))]_vars

\* An image that is not square has been rotated four times in a row.
C20_Witness ==
  /\ lastEvent.h = "complete"
  /\ lastEvent.kind = "rotate"
  /\ InARow(currentImageUri, "rotate90", 4)
  /\ Dim(currentImageUri)[1] # Dim(currentImageUri)[2]
  /\ Dim(currentImageUri) = Dim(Before(currentImageUri, 4))
  /\ Dim(currentImageUri) # Dim(Before(currentImageUri, 1))


\* --------------------------------------------------------------- compress
\* C21: compress(q) changes nothing but the encoding quality: its result
\* depends only on the current raster and q, so for any brightness, contrast
\* and saturation slider values left over from the enhance tool, compress
\* applies no colour adjustment to the pixels (the filter it draws through
\* is the neutral 100 %, 100 %, 100 %).
C21_CompressOnlyReencodes ==
  [][CompletesAlone("compress") =>
       currentImageUri' =
         ApplyCanvasOperations(pending[1].src, SliderDefault, SliderDefault,
                               SliderDefault, pending[1].arg[4])]_vars


\* ---------------------------------------------------------------- overlay
\* The step before was the import footer's Cancel or a successful apply of
\* the overlay.
OverlayJustEnded ==
  \/ lastEvent.h = "cancel" /\ lastEvent.kind = "import"
  \/ lastEvent.h = "complete" /\ lastEvent.kind = "overlay"
     /\ lastEvent.out = "ok"

\* C22: at most one overlay exists at any time, and an overlay exists only
\* between an import and the next apply or cancel: after a successful apply
\* or a cancel the overlay is absent, and it stays absent until the user
\* starts a new import (no single step both starts an import and places its
\* overlay), also when the cancel arrives before the imported file has
\* finished loading.
C22_OverlayEndsWithCancel ==
  /\ [](Len(overlay) <= 1)
  /\ [](OverlayJustEnded => overlay = <<>>)
  /\ [][OverlayJustEnded => overlay' = <<>>]_vars


\* The overlay box lies inside <main>.
OverlayInside ==
  /\ 0 <= overlay[1].x
  /\ overlay[1].x + overlay[1].width <= containerRef[1] * PX
  /\ 0 <= overlay[1].y
  /\ overlay[1].y + overlay[1].height <= containerRef[2] * PX

\* C23: in every reachable state with a live overlay, from its initial
\* placement through any sequence of drags and for every container size, the
\* overlay lies fully inside the container: 0 <= x, x + width <=
\* containerWidth, 0 <= y, y + height <= containerHeight.
C23_OverlayInsideContainer == overlay # <<>> => OverlayInside


\* C24: applying an overlay at opacity 0 produces a raster whose pixels equal
\* the base raster's pixels everywhere, the overlay region included; the
\* apply still archives the prior raster to the undo stack and clears the
\* overlay.
C24_TransparentOverlayApply ==
  [][CompletesAlone("overlay") /\ pending[1].arg.opacity = 0 =>
       /\ Dim(currentImageUri') = Dim(pending[1].src)
       /\ Colours(currentImageUri') = Colours(pending[1].src)
       /\ undoStack' # <<>>
       /\ Head(undoStack') = currentImageUri
       /\ Tail(undoStack') = SubSeq(undoStack, 1, Len(undoStack') - 1)
       /\ overlay' = <<>>]_vars

\* An overlay that covers pixels of the image has been applied at opacity 0.
C24_Witness ==
  /\ lastEvent.h = "complete"
  /\ lastEvent.kind = "overlay"
  /\ lastEvent.out = "ok"
  /\ currentImageUri[2][1] = "overlay"
  /\ currentImageUri[2][7] = 0
  /\ \E q \in Grid(Dim(currentImageUri)[1], Dim(currentImageUri)[2]) :
       /\ InOverlayRect(q, currentImageUri[2])
       /\ OverlayColour # Colours(currentImageUri[3])[q]
  /\ Colours(currentImageUri) = Colours(currentImageUri[3])
  /\ undoStack = <<currentImageUri[3]>>
  /\ overlay = <<>>


\* C25: while the crop tool is mounted its rectangle is at least 40 x 40 and
\* lies inside the tool's container: 0 <= x, x + w <= clientWidth, 0 <= y,
\* y + h <= clientHeight.
CropInside ==
  /\ crop.w >= CropMinSize * PX
  /\ crop.h >= CropMinSize * PX
  /\ 0 <= crop.x
  /\ crop.x + crop.w <= CropContainer[1] * PX
  /\ 0 <= crop.y
  /\ crop.y + crop.h <= CropContainer[2] * PX
C25_CropInsideContainer == activeTool = "crop" => CropInside


\* C26: a Cancel of the crop tool or of the overlay import leaves the
\* current raster and the undo stack as they were and ends with no active
\* tool; the overlay's Cancel also removes the overlay.
CancelStep == lastEvent'.h = "cancel"
C26_CancelLeavesRaster ==
  [][CancelStep =>
       /\ lastEvent'.kind = IF activeTool = "crop" THEN "crop" ELSE "import"
       /\ currentImageUri' = currentImageUri
       /\ undoStack' = undoStack
       /\ activeTool' = "none"
       /\ (activeTool = "import" => overlay' = <<>>)]_vars
\* An overlay import has been cancelled after an edit filled the undo stack.
C26_Witness ==
  /\ lastEvent.h = "cancel"
  /\ lastEvent.kind = "import"
  /\ undoStack # <<>>
  /\ activeTool = "none"
  /\ overlay = <<>>


\* C27: at most one animation frame is requested and not yet run, and one
\* is pending exactly while the loop is Animating: pointer events arriving
\* between frames never start a second loop.
C27_OneTickPending ==
  /\ rafPending <= 1
  /\ isAnimatingRef <=> rafPending = 1
\* Pointer events have called startLoop several times around a frame that
\* asked for the next one.
C27_Witness ==
  /\ rafPending = 1
  /\ isAnimatingRef
  /\ ticks >= 1
  /\ pointerEvents >= 4
  /\ lastEvent.h = "pointermove"


\* C28: a frame that asks for the next one has moved the display 0.15 of the
\* way to the target on tx, ty and scale, then added the velocity to tx and
\* ty, then multiplied the velocity by 0.92, whatever the velocity.
C28_TickAddsVelocity ==
  [][TickStep /\ isAnimatingRef' =>
       /\ transformRef' =
            [tx |-> Add(Eased(transformRef.tx, targetRef.tx), velocityRef.vx),
             ty |-> Add(Eased(transformRef.ty, targetRef.ty), velocityRef.vy),
             scale |-> Eased(transformRef.scale, targetRef.scale)]
       /\ velocityRef' = [vx |-> Frac(velocityRef.vx, FrictionPct, 100),
                          vy |-> Frac(velocityRef.vy, FrictionPct, 100)]]_vars


\* C29: with three or more tracked pointers the pinch is computed from the
\* two earliest-added pointers of the table: a move that leaves those two
\* where they were leaves the target scale and translation unchanged.
OtherPointerMoves ==
  /\ lastEvent'.h = "pointermove"
  /\ lastEvent'.kind = "pinch"
  /\ Len(pointers) >= 3
  /\ pointers'[1] = pointers[1]
  /\ pointers'[2] = pointers[2]
  /\ pointers' # pointers
C29_ThirdPointerLeavesTarget ==
  [][OtherPointerMoves =>
       /\ targetRef' = targetRef
       /\ lastPinchDistance' =
            GetDistanceBetween(pointers[1].pos, pointers[2].pos)]_vars


\* C30: the ids of the pointer table are the pointers that have had a
\* pointerdown on <main> and no pointerup or pointercancel since: a down adds
\* its id, an up or a cancel removes its id (a cancel exactly as an up), and
\* no other step changes the ids.
TableIds == {pointers[i].id : i \in 1..Len(pointers)}
DownOf(id) == \E p \in Positions : OnPointerDown(MaxThreeEvents, id, p)
UpOf(id) == OnPointerUp(MaxThreeEvents, id)
CancelOf(id) == OnPointerCancel(MaxThreeEvents, id)
C30_PointerTableFollowsEvents ==
  [][/\ \A id \in ThreePointerIds :
          /\ DownOf(id) => id \notin TableIds /\ TableIds' = TableIds \cup {id}
          /\ UpOf(id) => TableIds' = TableIds \ {id}
          /\ CancelOf(id) => TableIds' = TableIds \ {id}
     /\ (\A id \in ThreePointerIds : ~DownOf(id) /\ ~UpOf(id) /\ ~CancelOf(id))
          => TableIds' = TableIds
     /\ Cardinality(TableIds') = Len(pointers')]_vars
\* Three pointers went down and the first of them was lifted: the table
\* holds the other two.
C30_Witness ==
  /\ lastEvent.h = "pointerup"
  /\ Len(pointers) = 2
  /\ TableIds = {2, 3}
  /\ pointerEvents = 4


\* C31: a drag that began on the se handle resizes the rectangle: on every
\* move x and y are those of the drag's start, and w and h are the start's
\* plus the drag delta, clamped to at least 40 and to the container's right
\* and bottom edges.
BeganOn(cx, cy) ==
  /\ dragRef.mode # "none"
  /\ OnHandle([x |-> dragRef.startX, y |-> dragRef.startY], cx, cy)
BeganOnSE ==
  BeganOn(dragRef.startCrop.x + dragRef.startCrop.w,
          dragRef.startCrop.y + dragRef.startCrop.h)
C31_SeDragResizes ==
  [][\A p \in CropPositions :
       BeganOnSE /\ CropPointerMove(MaxCropEvents, p) =>
         LET sc == dragRef.startCrop
             dx == PointerAt(p).x - dragRef.startX
             dy == PointerAt(p).y - dragRef.startY
         IN /\ crop'.x = sc.x
            /\ crop'.y = sc.y
            /\ crop'.w = Clamp(sc.w + dx, CropMinSize * PX,
                               CropContainer[1] * PX - sc.x)
            /\ crop'.h = Clamp(sc.h + dy, CropMinSize * PX,
                               CropContainer[2] * PX - sc.y)]_vars


C33_CropSourceInsideImage ==
  [][ApplyCrop(<<MaxShrinkOps, 0>>) /\ CropInside =>
       LET r == pending'[Len(pending')].arg
           d == Dim(currentImageUri)
       IN /\ r[1] >= 0 /\ r[2] >= 0
          /\ r[3] >= 1 /\ r[4] >= 1
          /\ r[1] + r[3] <= d[1]
          /\ r[2] + r[4] <= d[2]]_vars


\* C34: a pointerdown sets the velocity to (0, 0) and leaves the target
\* transform as it is; the velocity then stays (0, 0) until a pointermove
\* sets it, and a frame run meanwhile only eases the display towards the
\* target (or snaps it there): the fling adds nothing more.
DownStep == lastEvent'.h = "pointerdown"
EasedOnly ==
  [tx |-> Eased(transformRef.tx, targetRef.tx),
   ty |-> Eased(transformRef.ty, targetRef.ty),
   scale |-> Eased(transformRef.scale, targetRef.scale)]
C34_DownStopsFling ==
  [][/\ DownStep => velocityRef' = ZeroVelocity /\ targetRef' = targetRef
     /\ velocityRef = ZeroVelocity /\ lastEvent'.h # "pointermove"
          => velocityRef' = ZeroVelocity
     /\ TickStep /\ velocityRef = ZeroVelocity
          => transformRef' \in {EasedOnly, targetRef}]_vars
\* A finger has come down on a fling: the only tracked pointer has just gone
\* down, after a frame left the display off the target, which no pinch has
\* moved.
C34_Witness ==
  /\ lastEvent.h = "pointerdown"
  /\ Len(pointers) = 1
  /\ ticks >= 1
  /\ velocityRef = ZeroVelocity
  /\ targetRef = Identity
  /\ transformRef.tx # targetRef.tx


\* C35: isProcessing is true exactly while an asynchronous pipeline operation
\* is in flight: true whenever one is pending, false when none is.
C35_BusyWhileInFlight == isProcessing <=> pending # <<>>

====
